---- MODULE Spec2Model ----
(***************************************************************************)
(* picorand: the WyRand counter generator, the range reducer rand_range    *)
(* and the width-polymorphic wrapper RNG<WyRand, T> of src/src/lib.rs.     *)
(*                                                                         *)
(* Machine integers are kept at their exact width.  A value of n bytes is  *)
(* a sequence of n limbs (bytes), least significant first, so u64 is 8     *)
(* limbs and u128 is 16 limbs; every operator below works on any number of *)
(* limbs.  usize is 64 bits (a 64-bit target).                             *)
(***************************************************************************)
EXTENDS Integers, Sequences, FiniteSets, TLC

\* One limb holds one byte.
Base == 256

Zero(n) == [i \in 1..n |-> 0]

\* The n-limb value of a small natural number v < 2^24.
FromNat(v, n) ==
  [i \in 1..n |-> IF i = 1 THEN v % Base
                  ELSE IF i = 2 THEN (v \div Base) % Base
                  ELSE IF i = 3 THEN (v \div (Base * Base)) % Base
                  ELSE 0]

\* The natural number of a value of at most 3 significant limbs.
ToNat(a) ==
  (IF Len(a) >= 1 THEN a[1] ELSE 0)
  + (IF Len(a) >= 2 THEN a[2] * Base ELSE 0)
  + (IF Len(a) >= 3 THEN a[3] * Base * Base ELSE 0)

\* `as u128` / `as u64` / `as T` between unsigned widths: zero-extension or
\* truncation to n limbs.
Cast(a, n) == [i \in 1..n |-> IF i <= Len(a) THEN a[i] ELSE 0]

\* All limbs 0xFF: T::MAX of an unsigned type of n bytes.
AllOnes(n) == [i \in 1..n |-> Base - 1]

RECURSIVE AddLimbs(_, _, _, _)
\* a + b + c from limb i on, dropping the carry out of the top limb.
AddLimbs(a, b, i, c) ==
  IF i > Len(a) THEN <<>>
  ELSE LET s == a[i] + b[i] + c
       IN  <<s % Base>> \o AddLimbs(a, b, i + 1, s \div Base)

RECURSIVE SubLimbs(_, _, _, _)
\* a - b - c from limb i on, dropping the borrow out of the top limb.
SubLimbs(a, b, i, c) ==
  IF i > Len(a) THEN <<>>
  ELSE LET d == a[i] - b[i] - c
       IN  <<d % Base>> \o SubLimbs(a, b, i + 1, IF d < 0 THEN 1 ELSE 0)

\* A variant of wrapping_add that saturates: the sum, or u64::MAX when it
\* does not fit.
saturating_add(a, b) ==
  LET n == Len(a)
      s == AddLimbs(Cast(a, n + 1), Cast(b, n + 1), 1, 0)
  IN  IF s[n + 1] # 0 THEN AllOnes(n) ELSE Cast(s, n)

\* u64::wrapping_add: the sum modulo 2^(8 * Len(a)).
wrapping_add(a, b) == AddLimbs(a, b, 1, 0)

wrapping_sub(a, b) == SubLimbs(a, b, 1, 0)

RECURSIVE LessFrom(_, _, _)
LessFrom(a, b, i) ==
  IF i = 0 THEN FALSE
  ELSE IF a[i] # b[i] THEN a[i] < b[i]
  ELSE LessFrom(a, b, i - 1)

\* Unsigned a < b, for values of the same number of limbs.
Less(a, b) == LessFrom(a, b, Len(a))

RECURSIVE XorByte(_, _)
XorByte(p, q) ==
  IF p = 0 /\ q = 0 THEN 0
  ELSE (((p % 2) + (q % 2)) % 2) + 2 * XorByte(p \div 2, q \div 2)

\* Bitwise exclusive or.
Xor(a, b) == [i \in 1..Len(a) |-> XorByte(a[i], b[i])]

RECURSIVE ColSum(_, _, _, _)
\* The sum of the limb products a[i] * b[k + 1 - i] for i = 1..j.
ColSum(a, b, k, j) ==
  IF j = 0 THEN 0 ELSE a[j] * b[k + 1 - j] + ColSum(a, b, k, j - 1)

RECURSIVE MulCols(_, _, _, _)
MulCols(a, b, k, c) ==
  IF k > Len(a) THEN <<>>
  ELSE LET s == ColSum(a, b, k, k) + c
       IN  <<s % Base>> \o MulCols(a, b, k + 1, s \div Base)

\* u128::wrapping_mul: the product modulo 2^(8 * Len(a)).
wrapping_mul(a, b) == MulCols(a, b, 1, 0)

\* The low half of a double-width value (`m as u64`).
Low(m) == SubSeq(m, 1, Len(m) \div 2)

\* The high half of a double-width value (`(m >> 64) as u64`).
High(m) == SubSeq(m, Len(m) \div 2 + 1, Len(m))

\* `x >> 64` on a u128: the high half, zero-extended.
Shr64(x) == Cast(High(x), Len(x))

\* Bit j (from 0) of a.
Bit(a, j) == (a[(j \div 8) + 1] \div (2 ^ (j % 8))) % 2

RECURSIVE RemBits(_, _, _, _)
\* Binary long division of a by b (b # 0), bits j down to 0, remainder r.
RemBits(a, b, j, r) ==
  IF j < 0 THEN r
  ELSE LET r2 == AddLimbs(r, r, 1, Bit(a, j))
       IN  IF Less(r2, b)
           THEN RemBits(a, b, j - 1, r2)
           ELSE RemBits(a, b, j - 1, wrapping_sub(r2, b))

RECURSIVE RemLimbs(_, _, _, _)
\* Short division of a by a divisor d < 2^23, limbs i down to 1, remainder r.
RemLimbs(a, d, i, r) ==
  IF i = 0 THEN r ELSE RemLimbs(a, d, i - 1, (r * Base + a[i]) % d)

\* TRUE when b < 2^23, so that (b - 1) * Base + (Base - 1) is below 2^31.
IsShort(b) == (\A i \in 4..Len(b) : b[i] = 0) /\ (Len(b) < 3 \/ b[3] < Base \div 2)

\* Unsigned remainder a mod b, b # 0.
URem(a, b) ==
  LET n == Len(a)
  IN  IF IsShort(b)
      THEN FromNat(RemLimbs(a, ToNat(b), n, 0), n)
      ELSE Cast(RemBits(a, Cast(b, n + 1), 8 * n - 1, Zero(n + 1)), n)

\* ---- signed views of an n-limb value (two's complement) ----

IsNeg(a) == a[Len(a)] >= Base \div 2

\* i64::MIN
IntMin(n) == [i \in 1..n |-> IF i = n THEN Base \div 2 ELSE 0]

\* i64::wrapping_neg
wrapping_neg(a) == wrapping_sub(Zero(Len(a)), a)

\* The magnitude of a signed value, as an unsigned value.
Magnitude(a) == IF IsNeg(a) THEN wrapping_neg(a) ELSE a

None == [some |-> FALSE, val |-> <<>>]
Some(v) == [some |-> TRUE, val |-> v]

\* i64::checked_rem: None when the divisor is 0 or the division overflows
\* (i64::MIN by -1); else the remainder, which has the sign of the dividend.
checked_rem(a, b) ==
  IF b = Zero(Len(b)) \/ (a = IntMin(Len(a)) /\ b = AllOnes(Len(b)))
  THEN None
  ELSE LET r == URem(Magnitude(a), Magnitude(b))
       IN  Some(IF IsNeg(a) THEN wrapping_neg(r) ELSE r)

unwrap_or(o, d) == IF o.some THEN o.val ELSE d

\* ---- the program's state ----

\* Two generator instances (two RNG<WyRand, T> values of one program).
Inst == {1, 2}

Other(i) == 3 - i

VARIABLES
  checks,   \* build profile: TRUE when overflow checks are compiled in (debug)
  T,        \* the wrapper's width tag, in bytes: u8 = 1, u16 = 2, u32 = 4, u64 = 8
  seed0,    \* the seed both instances were constructed with
  seed,     \* seed[i]: WyRand.seed of instance i
  pc,       \* pc[i]: "idle", "loop" (inside rand_range's loop) or "panicked"
  op,       \* op[i]: the call instance i is in, or made last
  t,        \* t[i]: rand_range's local t
  iters,    \* iters[i]: raw draws made so far by the call in progress
  draws,    \* draws[i]: raw draws made since construction
  idx,      \* idx[i]: calls started since construction
  ret,      \* ret[i]: what instance i's last call returned, once it has
  ovf,      \* ovf[i]: the last call's negation -(max as i64) overflowed
  cur,      \* the latest call issued to the instances, and its index
  sw        \* the raw-domain sweep of the reducer (SpecSweep)

vars == <<checks, T, seed0, seed, pc, op, t, iters, draws, idx, ret, ovf, cur, sw>>

\* ---- WyRand ----

U64(v) == FromNat(v, 8)

\* 0xE7037ED1A0B428DB
INC == <<219, 40, 180, 160, 209, 126, 3, 231>>

\* WyRand::new
new(s) == s

\* A variant of rand whose counter is offset by a static shared by every
\* instance: the draws of the other instances move it too.
rand_static(s) ==
  LET s1 == wrapping_add(wrapping_add(s, U64((draws[1] + draws[2]) % 2)), INC)
      x  == wrapping_mul(Cast(s1, 16), Cast(Xor(s1, INC), 16))
  IN  [seed |-> s1, out |-> Cast(Xor(Shr64(x), x), 8)]

\* WyRand::rand: the new counter and the value returned.
rand(s) ==
  LET s1 == wrapping_add(s, INC)
      x  == wrapping_mul(Cast(s1, 16), Cast(Xor(s1, INC), 16))
  IN  [seed |-> s1, out |-> Cast(Xor(Shr64(x), x), 8)]

\* `-(max as i64)`: the negation wraps, and overflows exactly on i64::MIN.
neg(a) == [overflow |-> a = IntMin(Len(a)), val |-> wrapping_neg(a)]

\* rand_range's `t`, given that the negation did not panic.
threshold(max) ==
  unwrap_or(checked_rem(neg(max).val, max), Zero(Len(max)))

\* rand_range's `m`: the double-width product of the raw draw and max.
widemul(x, max) ==
  wrapping_mul(Cast(x, 2 * Len(x)), Cast(max, 2 * Len(x)))

\* A variant of the loop condition that also rejects l = t.
reject_le(l, tt) == ~Less(tt, l)

\* rand_range's loop condition: TRUE when the draw is rejected.
reject(l, tt) == Less(l, tt)

\* A variant of clamp that bounds v from above only.
clamp_upper(v, min, max) ==
  [panic |-> Less(max, min), val |-> IF Less(max, v) THEN max ELSE v]

\* Ord::clamp: asserts min <= max, then bounds v from below and above.
clamp(v, min, max) ==
  [panic |-> Less(max, min),
   val   |-> IF Less(v, min) THEN min ELSE IF Less(max, v) THEN max ELSE v]

\* T::try_from(u128) for an unsigned T of n bytes.
try_into(v, n) ==
  IF \A i \in 1..Len(v) : i > n => v[i] = 0 THEN Some(Cast(v, n)) ELSE None

\* T::MIN and T::MAX `as usize`.
TMin == Zero(8)
TMax == Cast(AllOnes(T), 8)

\* ---- inputs ----

\* 0xDEADBEEF, the seed of the repository's tests.
TestSeed == <<239, 190, 173, 222, 0, 0, 0, 0>>

Seeds == {Zero(8), TestSeed, AllOnes(8)}

Widths == {1, 2, 4, 8}

Pair(a, b) == [min |-> a, max |-> b]

\* The bound pairs generate_range is called with.
Bounds ==
  { Pair(U64(192), U64(222)),        \* the tests' 0xC0, 0xDE
    Pair(U64(0), U64(1)),            \* the least nonzero max
    Pair(U64(0), U64(3)),
    Pair(U64(1), U64(255)),
    Pair(U64(300), U64(400)),        \* beyond u8
    Pair(U64(0), IntMin(8)),         \* max = 2^63
    Pair(U64(0), AllOnes(8)),        \* max = 2^64 - 1
    Pair(IntMin(8), AllOnes(8)),
    Pair(U64(7), U64(7)),            \* max = min
    Pair(U64(0), U64(0)),            \* max = 0
    Pair(U64(3), U64(0)),            \* max = 0 < min
    Pair(U64(5), U64(3)),            \* max < min
    Pair(U64(500), U64(500)) }       \* max = min, beyond u8

Call(k, a, b) == [kind |-> k, min |-> a, max |-> b]

NoCall == Call("none", Zero(8), Zero(8))

\* The tests' loop body: generate_range(0xC0, 0xDE).
TestCall == Call("generate_range", U64(192), U64(222))

\* Calls per instance in a run, and in a run of the tests' loop.
MaxCalls == 3
TestDraws == 100

\* Passes of rand_range's loop explored per call.
MaxIters == 3

NoRet ==
  [call |-> NoCall, raw |-> Zero(8), val |-> <<>>, fallback |-> FALSE]

Init ==
  /\ checks \in BOOLEAN
  /\ T \in Widths
  /\ seed0 \in Seeds
  /\ seed = [i \in Inst |-> new(seed0)]
  /\ pc = [i \in Inst |-> "idle"]
  /\ op = [i \in Inst |-> NoCall]
  /\ t = [i \in Inst |-> Zero(8)]
  /\ iters = [i \in Inst |-> 0]
  /\ draws = [i \in Inst |-> 0]
  /\ idx = [i \in Inst |-> 0]
  /\ ret = [i \in Inst |-> NoRet]
  /\ ovf = [i \in Inst |-> FALSE]
  /\ cur = [k |-> 0, op |-> NoCall]
  /\ sw = [phase |-> "off"]

\* Instance i may start call c: it is idle and either follows the other
\* instance through the call that one was given, or, with both instances
\* through the same calls, is given a new one.
Start(i, c) ==
  /\ pc[i] = "idle"
  /\ \/ idx[i] < MaxCalls
     \/ seed0 = TestSeed /\ T = 1 /\ c = TestCall /\ idx[i] < TestDraws
  /\ IF idx[i] < cur.k
     THEN c = cur.op /\ cur' = cur
     ELSE /\ pc[Other(i)] = "idle"
          /\ idx[Other(i)] = idx[i]
          /\ cur' = [k |-> idx[i] + 1, op |-> c]
  /\ idx' = [idx EXCEPT ![i] = @ + 1]

\* ret and ovf record the instances' outcomes of the latest call issued:
\* f as it is when instance i follows, and cleared when i is given a new call.
Outcomes(i, f, none) ==
  IF idx[i] < cur.k THEN f ELSE [j \in Inst |-> none]

\* WyRand::rand called directly.
call_rand(i) ==
  /\ Start(i, Call("rand", Zero(8), Zero(8)))
  /\ LET r == rand(seed[i])
     IN  /\ seed' = [seed EXCEPT ![i] = r.seed]
         /\ ret' = [Outcomes(i, ret, NoRet) EXCEPT ![i] =
                      [call |-> Call("rand", Zero(8), Zero(8)), raw |-> r.out,
                       val |-> r.out, fallback |-> FALSE]]
  /\ op' = [op EXCEPT ![i] = NoCall]
  /\ draws' = [draws EXCEPT ![i] = @ + 1]
  /\ ovf' = Outcomes(i, ovf, FALSE)
  /\ UNCHANGED <<checks, T, seed0, pc, t, iters, sw>>

\* rand_range up to its loop: line 61 computes t, and panics when the
\* negation overflows in a build with overflow checks.
rand_range_enter(i, max) ==
  /\ ovf' = [Outcomes(i, ovf, FALSE) EXCEPT ![i] = neg(max).overflow]
  /\ ret' = Outcomes(i, ret, NoRet)
  /\ IF neg(max).overflow /\ checks
     THEN /\ pc' = [pc EXCEPT ![i] = "panicked"]
          /\ t' = t
     ELSE /\ pc' = [pc EXCEPT ![i] = "loop"]
          /\ t' = [t EXCEPT ![i] = threshold(max)]
  /\ iters' = [iters EXCEPT ![i] = 0]
  /\ UNCHANGED <<checks, T, seed0, seed, draws, sw>>

\* RNG::generate_range(min, max), up to rand_range's loop.
generate_range(i, min, max) ==
  /\ Start(i, Call("generate_range", min, max))
  /\ op' = [op EXCEPT ![i] = Call("generate_range", min, max)]
  /\ rand_range_enter(i, max)

\* PicoRandGenerate::generate, up to rand_range's loop.
generate(i) ==
  /\ Start(i, Call("generate", TMin, TMax))
  /\ op' = [op EXCEPT ![i] = Call("generate", TMin, TMax)]
  /\ rand_range_enter(i, TMax)

\* What the caller of rand_range makes of its result v: generate casts it
\* to T (`as _`), generate_range converts it and falls back to T's default.
narrow(c, v) ==
  IF c.kind = "generate"
  THEN [call |-> c, raw |-> v, val |-> Cast(v, T), fallback |-> FALSE]
  ELSE LET r == try_into(Cast(v, 16), T)
       IN  [call |-> c, raw |-> v, val |-> unwrap_or(r, Zero(T)),
            fallback |-> ~r.some]

\* One pass of rand_range's loop; the accepting pass also clamps, returns
\* to generate / generate_range and narrows the result to T.
rand_range_loop(i) ==
  /\ pc[i] = "loop"
  /\ iters[i] < MaxIters
  /\ LET r == rand(seed[i])
         m == widemul(r.out, op[i].max)
         c == clamp(High(m), op[i].min, op[i].max)
     IN  /\ seed' = [seed EXCEPT ![i] = r.seed]
         /\ IF reject(Low(m), t[i])
            THEN UNCHANGED <<pc, ret, op, t>>
            ELSE IF c.panic
            THEN /\ pc' = [pc EXCEPT ![i] = "panicked"]
                 /\ UNCHANGED <<ret, op, t>>
            ELSE /\ pc' = [pc EXCEPT ![i] = "idle"]
                 /\ ret' = [ret EXCEPT ![i] = narrow(op[i], c.val)]
                 /\ op' = [op EXCEPT ![i] = NoCall]
                 /\ t' = [t EXCEPT ![i] = Zero(8)]
  /\ iters' = [iters EXCEPT ![i] = @ + 1]
  /\ draws' = [draws EXCEPT ![i] = @ + 1]
  /\ UNCHANGED <<checks, T, seed0, idx, ovf, cur, sw>>

Next ==
  \E i \in Inst :
    \/ call_rand(i)
    \/ generate(i)
    \/ \E b \in Bounds : generate_range(i, b.min, b.max)
    \/ rand_range_loop(i)

Spec == Init /\ [][Next]_vars

\* ---- the reducer over a whole raw domain ----

\* The reducer's arithmetic is the same at every word width.  To count the
\* raw values behind each result, the sweep runs lines 61-72 and the
\* caller's narrowing on a raw word of SweepWord bytes, on every raw value
\* of that word in turn.
SweepWord == 1

RawCount == Base ^ SweepWord

SW(v) == FromNat(v, SweepWord)

\* The calls swept: generate() for T the whole word, and generate_range.
SweepCalls ==
  { Call("generate", SW(0), AllOnes(SweepWord)),
    Call("generate_range", SW(0), SW(3)),
    Call("generate_range", SW(0), SW(1)),
    Call("generate_range", SW(0), SW(16)),
    Call("generate_range", SW(192), SW(222)) }

InitSweep ==
  /\ checks \in BOOLEAN
  /\ T = SweepWord
  /\ seed0 = Zero(8)
  /\ seed = [i \in Inst |-> new(seed0)]
  /\ pc = [i \in Inst |-> "idle"]
  /\ op = [i \in Inst |-> NoCall]
  /\ t = [i \in Inst |-> Zero(8)]
  /\ iters = [i \in Inst |-> 0]
  /\ draws = [i \in Inst |-> 0]
  /\ idx = [i \in Inst |-> 0]
  /\ ret = [i \in Inst |-> NoRet]
  /\ ovf = [i \in Inst |-> FALSE]
  /\ cur = [k |-> 0, op |-> NoCall]
  /\ \E c \in SweepCalls :
       sw = [phase |-> "sweep", call |-> c, x |-> 0, rejected |-> 0,
             faults |-> 0,
             count |-> [v \in 0..(RawCount - 1) |-> 0]]

\* Lines 61-72 and the caller's narrowing on the next raw value sw.x.
sweep_step ==
  /\ sw.phase = "sweep"
  /\ LET c == sw.call
         m == widemul(SW(sw.x), c.max)
         k == clamp(High(m), c.min, c.max)
         v == ToNat(narrow(c, k.val).val)
         next == [sw EXCEPT !.x = @ + 1,
                            !.phase = IF sw.x + 1 = RawCount THEN "done" ELSE @]
     IN  sw' = IF neg(c.max).overflow /\ checks
               THEN [next EXCEPT !.faults = @ + 1]
               ELSE IF reject(Low(m), threshold(c.max))
               THEN [next EXCEPT !.rejected = @ + 1]
               ELSE IF k.panic
               THEN [next EXCEPT !.faults = @ + 1]
               ELSE [next EXCEPT !.count[v] = @ + 1]
  /\ UNCHANGED <<checks, T, seed0, seed, pc, op, t, iters, draws, idx, ret,
                 ovf, cur>>

NextSweep == sweep_step

SpecSweep == InitSweep /\ [][NextSweep]_vars

\* ---- the claims ----

\* The call instance i is in, or the one it returned from last.
CallOf(i) == IF pc[i] = "idle" THEN ret[i].call ELSE op[i]

\* The value instance i returned, widened to 64 bits.
Returned(i) == Cast(ret[i].val, 8)

\* C1: every value generate_range(min, max) returns, for min < max and max
\* within T's range, whatever the seed and the draws before it, is at least
\* min and below max.
C1_RangeContainment ==
  \A i \in Inst :
    LET c == ret[i].call
    IN  (c.kind = "generate_range" /\ Less(c.min, c.max) /\ ~Less(TMax, c.max))
        => (~Less(Returned(i), c.min) /\ Less(Returned(i), c.max))

\* The tests' loop has run to its hundredth generate_range(0xC0, 0xDE) on a
\* u8 wrapper seeded with 0xDEADBEEF, which returns 0xC1.
C1_Witness ==
  /\ seed0 = TestSeed /\ T = 1
  /\ pc[1] = "idle" /\ idx[1] = TestDraws
  /\ ret[1].call = TestCall
  /\ Returned(1) = U64(193)

\* C2: two instances constructed with the same seed and driven by the same
\* calls hold the same counter and have returned the same value (or both
\* panicked) whenever they are through the same number of calls.
C2_Determinism ==
  (pc[1] # "loop" /\ pc[2] # "loop" /\ idx[1] = idx[2])
  => (seed[1] = seed[2] /\ ret[1] = ret[2] /\ pc[1] = pc[2]
      /\ draws[1] = draws[2] /\ ovf[1] = ovf[2])

\* Both instances are through the same three calls, the last a
\* generate_range that returned.
C2_Witness ==
  /\ idx[1] = MaxCalls /\ idx[2] = MaxCalls
  /\ pc[1] = "idle" /\ pc[2] = "idle"
  /\ ret[1].call.kind = "generate_range" /\ ret[2].call.kind = "generate_range"
  /\ draws[2] = MaxCalls

\* C3: over the whole raw domain, every value of [min, max) is the result
\* of the same number of accepted raw values.
C3_EqualPreimages ==
  (sw.phase = "done" /\ sw.call.kind = "generate_range")
  => \A v, w \in ToNat(sw.call.min)..(ToNat(sw.call.max) - 1) :
       sw.count[v] = sw.count[w]

\* C4: generate() returns every value of T, T::MAX included, for some raw
\* draw.
C4_FullWidth ==
  (sw.phase = "done" /\ sw.call.kind = "generate")
  => \A v \in 0..(RawCount - 1) : sw.count[v] >= 1

\* C5: a call with min < max neither overflows in -(max as i64) nor panics.
C5_NoFault ==
  \A i \in Inst :
    (CallOf(i).kind \in {"generate", "generate_range"}
     /\ Less(CallOf(i).min, CallOf(i).max))
    => (~ovf[i] /\ pc[i] # "panicked")

\* C6: generate_range with max <= min does not panic, and returns a value
\* fixed by the bounds (min).
C6_Degenerate ==
  \A i \in Inst :
    (CallOf(i).kind = "generate_range" /\ ~Less(CallOf(i).min, CallOf(i).max))
    => (pc[i] # "panicked" /\ (pc[i] = "idle" => ret[i].raw = CallOf(i).min))

\* C7: whatever the counter and max (0, 1 and 2^64 - 1 included),
\* rand_range's loop exits after finitely many raw draws: the first draw of
\* every call is accepted, so a call is in the loop only before its first
\* draw and no call makes a second one.
C7_Termination ==
  \A i \in Inst : (pc[i] = "loop" => iters[i] = 0) /\ iters[i] <= 1

\* A call with max = 0 has left the loop, after one draw.
C7_Witness ==
  /\ pc[1] = "idle" /\ iters[1] = 1
  /\ ret[1].call = Call("generate_range", U64(0), U64(0))

\* C8: inside the loop t is (2^64 - max) mod max for max # 0, and 0 for
\* max = 0.
C8_Threshold ==
  \A i \in Inst :
    pc[i] = "loop"
    => t[i] = IF op[i].max = Zero(8) THEN Zero(8)
              ELSE URem(wrapping_neg(op[i].max), op[i].max)

\* C9: whenever generate_range returns, the conversion to T succeeded: the
\* fallback was not taken and the value is the reducer's result.
C9_NoFallback ==
  \A i \in Inst :
    ret[i].call.kind = "generate_range"
    => (~ret[i].fallback /\ Returned(i) = ret[i].raw)

\* seed0 + n * INC modulo 2^64.
CounterAfter(n) ==
  Cast(AddLimbs(Cast(seed0, 16),
                wrapping_mul(Cast(U64(n), 16), Cast(INC, 16)), 1, 0), 8)

\* C10: after n raw draws the counter is seed0 + n * INC modulo 2^64, with
\* INC odd; an instance that has returned from every call has made one raw
\* draw per call; and the counter has not come back to the seed.
C10_Counter ==
  \A i \in Inst :
    /\ seed[i] = CounterAfter(draws[i])
    /\ INC[1] % 2 = 1
    /\ pc[i] = "idle" => draws[i] = idx[i]
    /\ draws[i] > 0 => seed[i] # seed0

\* Three calls in, from the seed 2^64 - 1: the counter has wrapped.
C10_Witness ==
  /\ seed0 = AllOnes(8)
  /\ pc[1] = "idle" /\ idx[1] = MaxCalls /\ draws[1] = MaxCalls
  /\ Less(seed[1], seed0)
====
